---- MODULE Spec2Model ----
(***************************************************************************)
(* Nauthiz: IOC enrichment (src/app/api/ioc.py), scoring                   *)
(* (src/app/core/scoring.py) and the assessment store (src/app/core/db.py).*)
(*                                                                         *)
(* Five specifications share the variables below:                          *)
(*   SpecScore  score_ioc applied to every bounded combination of results, *)
(*              each returned value then stored as query_ioc stores it     *)
(*   Spec       the POST /api/query pipeline: validation, the three        *)
(*              provider tasks, the shared deadline, scoring, the insert   *)
(*   SpecStore  save_query and the three read queries over a long store    *)
(*   SpecConc   two POST /api/query handlers in flight at once, and the    *)
(*              three GET handlers                                         *)
(*   SpecDb     init_db and save_query called with any score and level     *)
(***************************************************************************)
EXTENDS Integers, Sequences, FiniteSets, TLC

VARIABLES
    now,          \* wall clock, whole seconds (CURRENT_TIMESTAMP resolution)
    rows,         \* table ioc_queries, in rowid order
    lastSaved,    \* arguments of the last successful save_query, or None
    pc,           \* position of the query_ioc handler
    req,          \* the request being served: [ioc, ioc_type], or None
    tasks,        \* the three asyncio tasks of _enrich_ioc_parallel
    t0,           \* time at which wait_for armed the batch timer
    timedOut,     \* the except asyncio.TimeoutError branch was taken
    enriched,     \* (vt_data, st_data, whois_data) handed to score_ioc
    scored,       \* value returned by score_ioc, or None
    response,     \* HTTP answer of the handler, or None
    calls,        \* provider lookups started for the current request
    dbInit,       \* _db_initialized
    order,        \* providers in the order their lookups returned
    conc,         \* the query_ioc handlers of SpecConc, by connection
    lookup,       \* answer of the last GET endpoint call, or None
    raised        \* exception raised by the last save_query call, or None

vars == <<now, rows, lastSaved, pc, req, tasks, t0, timedOut, enriched,
          scored, response, calls, dbInit, order, conc, lookup, raised>>

(***************************************************************************)
(* Python values.  Optional[x] is a set with at most one element; a dict   *)
(* is a function from its keys.                                            *)
(***************************************************************************)
None == {}

Some(v) == {v}

The(x) == CHOOSE v \in x : TRUE

EmptyDict == [k \in {} |-> 0]

\* bool(x) for an Optional[dict]: None and {} are both falsy
DictTruthy(x) == x # None /\ DOMAIN The(x) # {}

\* isinstance(x, dict)
IsDict(x) == x # None

Min(a, b) == IF a < b THEN a ELSE b

Max(a, b) == IF a > b THEN a ELSE b

(***************************************************************************)
(* Bounds of the model                                                     *)
(***************************************************************************)
MaxDet == 11

MaxNegDet == 1

MaxRes == 2

MaxEmails == 1

(***************************************************************************)
(* Providers (src/app/core/providers.py) and the shapes they return        *)
(***************************************************************************)
Providers == {"vt", "st", "hunter"}

VtResult(n) == [detections |-> n, total |-> 0, url |-> "vt-gui"]

RECURSIVE Records(_)
Records(n) == IF n = 0 THEN <<>> ELSE Append(Records(n - 1), "rec")

StResult(n) == [resolutions |-> Records(n)]

HunterResult(n) == [emails |-> n]

WhoisResult(r) == [registrar |-> r]

(***************************************************************************)
(* score_ioc (src/app/core/scoring.py)                                     *)
(***************************************************************************)
\* a mutant: the VirusTotal cap of 50 is dropped
vt_points_uncapped(vt_data) ==
    IF DictTruthy(vt_data)
    THEN LET d == The(vt_data)
             detections == IF "detections" \in DOMAIN d THEN d.detections ELSE 0
         IN  IF detections # 0 THEN detections * 5 ELSE 0
    ELSE 0

vt_points(vt_data) ==
    IF DictTruthy(vt_data)
    THEN LET d == The(vt_data)
             detections == IF "detections" \in DOMAIN d THEN d.detections ELSE 0
         IN  IF detections # 0 THEN Min(detections * 5, 50) ELSE 0
    ELSE 0

\* a mutant: 10 points for each resolution
st_points_each(st_data) ==
    IF DictTruthy(st_data)
    THEN LET d == The(st_data)
         IN  IF "resolutions" \in DOMAIN d
             THEN 10 * Len(d.resolutions) ELSE 0
    ELSE 0

st_points(st_data) ==
    IF DictTruthy(st_data)
    THEN LET d == The(st_data)
         IN  IF "resolutions" \in DOMAIN d /\ Len(d.resolutions) > 0
             THEN 10 ELSE 0
    ELSE 0

\* a mutant: a registrar is worth 10 points
whois_points_ten(whois_data) ==
    IF DictTruthy(whois_data)
    THEN LET d == The(whois_data)
         IN  IF "registrar" \in DOMAIN d /\ d.registrar # ""
             THEN 10 ELSE 0
    ELSE 0

whois_points(whois_data) ==
    IF DictTruthy(whois_data)
    THEN LET d == The(whois_data)
         IN  IF "registrar" \in DOMAIN d /\ d.registrar # ""
             THEN 5 ELSE 0
    ELSE 0

score_sources(vt_data, st_data, whois_data) ==
    (IF DictTruthy(vt_data) THEN <<"virustotal">> ELSE <<>>)
    \o (IF DictTruthy(st_data) THEN <<"securitytrails">> ELSE <<>>)
    \o (IF DictTruthy(whois_data) THEN <<"whois">> ELSE <<>>)

normalize_score(score) == Min(Max(score, 0), 100)

\* a mutant: the "high" tier starts strictly above 50
risk_level_strict(score) ==
    IF score >= 70 THEN "critical"
    ELSE IF score > 50 THEN "high"
    ELSE IF score >= 25 THEN "medium"
    ELSE "low"

risk_level_of(score) ==
    IF score >= 70 THEN "critical"
    ELSE IF score >= 50 THEN "high"
    ELSE IF score >= 25 THEN "medium"
    ELSE "low"

score_ioc(vt_data, st_data, whois_data) ==
    LET score == normalize_score(vt_points(vt_data) + st_points(st_data)
                                 + whois_points(whois_data))
    IN  [score      |-> score,
         risk_level |-> risk_level_of(score),
         sources    |-> score_sources(vt_data, st_data, whois_data)]

(***************************************************************************)
(* The assessment store (src/app/core/db.py)                               *)
(***************************************************************************)
HistoryLimit == 50

TimelineLimit == 100

\* json.dumps / json.loads of a list of strings, as a token stream
Punct(c) == [t |-> "punct", v |-> c]

RECURSIVE json_items(_)
json_items(list) ==
    IF list = <<>> THEN <<>>
    ELSE IF Len(list) = 1 THEN <<[t |-> "str", v |-> list[1]]>>
    ELSE <<[t |-> "str", v |-> Head(list)], Punct(",")>>
         \o json_items(Tail(list))

json_dumps_list(list) == <<Punct("[")>> \o json_items(list) \o <<Punct("]")>>

IsStrToken(tok) == tok.t = "str"

json_loads_list(text) ==
    LET strs == SelectSeq(text, IsStrToken)
    IN  [i \in 1..Len(strs) |-> strs[i].v]

\* json.dumps / json.loads of a provider dict; keys in insertion order
KeyOrder == <<"detections", "total", "url", "resolutions", "emails",
              "registrar">>

RECURSIVE json_members(_, _)
json_members(d, i) ==
    IF i > Len(KeyOrder) THEN <<>>
    ELSE IF KeyOrder[i] \in DOMAIN d
         THEN <<[t |-> "key", v |-> KeyOrder[i]],
                [t |-> "val", v |-> d[KeyOrder[i]]]>>
              \o json_members(d, i + 1)
         ELSE json_members(d, i + 1)

\* json.dumps(vt or {})
json_dumps_dict(x) ==
    <<Punct("{")>>
    \o (IF DictTruthy(x) THEN json_members(The(x), 1) ELSE <<>>)
    \o <<Punct("}")>>

json_loads_dict(text) ==
    LET ks == {i \in 1..Len(text) : text[i].t = "key"}
    IN  [k \in {text[i].v : i \in ks} |->
            text[(CHOOSE i \in ks : text[i].v = k) + 1].v]

\* a mutant: the table has no CHECK on risk_level
CheckScoreOnly(score, risk_level) ==
    score >= 0 /\ score <= 100

\* the CHECK constraints of the table
CheckConstraints(score, risk_level) ==
    /\ score >= 0 /\ score <= 100
    /\ risk_level \in {"low", "medium", "high", "critical"}

\* the row INSERT writes: id by AUTOINCREMENT, created_at, burned_infra and
\* activity_phase by their column defaults
NewRow(id, clock, ioc, ioc_type, score, risk_level, sources, vt, st, whois) ==
    [id                |-> id,
     ioc               |-> ioc,
     ioc_type          |-> ioc_type,
     score             |-> score,
     risk_level        |-> risk_level,
     sources           |-> json_dumps_list(sources),
     vt                |-> json_dumps_dict(vt),
     st                |-> json_dumps_dict(st),
     whois             |-> json_dumps_dict(whois),
     created_at        |-> clock,
     first_seen_global |-> clock,
     last_updated      |-> clock,
     burned_infra      |-> 0,
     activity_phase    |-> "unknown"]

\* a mutant: the INSERT is never committed
save_query_uncommitted(table, clock, ioc, ioc_type, score, risk_level, sources, vt, st, whois) ==
    table

\* a mutant: INSERT OR REPLACE keyed by the IOC, the earlier rows of the
\* IOC are dropped
save_query_replace(table, clock, ioc, ioc_type, score, risk_level, sources, vt, st, whois) ==
    LET kept == SelectSeq(table, LAMBDA r : r.ioc # ioc)
    IN  Append(kept, NewRow(Len(table) + 1, clock, ioc, ioc_type, score,
                            risk_level, sources, vt, st, whois))

\* CREATE TABLE IF NOT EXISTS: a table that exists keeps its rows
init_db(table) == table

\* the table after save_query; a row that breaks a CHECK constraint raises
\* sqlite3.IntegrityError and nothing is written
save_query(table, clock, ioc, ioc_type, score, risk_level, sources, vt, st, whois) ==
    IF CheckConstraints(score, risk_level)
    THEN Append(table, NewRow(Len(table) + 1, clock, ioc, ioc_type, score,
                              risk_level, sources, vt, st, whois))
    ELSE table

\* WHERE ioc = ?
WhereIoc(table, ioc) == SelectSeq(table, LAMBDA r : r.ioc = ioc)

\* ORDER BY created_at DESC.  Rows with the same created_at come back in
\* rowid order: SQL leaves their order open, and this is the order
\* SQLite's sorter returns for these queries.
OrderByCreatedDesc(selected) ==
    LET n == Len(selected)
        before(j, i) ==
            \/ selected[j].created_at > selected[i].created_at
            \/ selected[j].created_at = selected[i].created_at /\ j < i
        rank == [i \in 1..n |-> Cardinality({j \in 1..n : before(j, i)}) + 1]
    IN  [k \in 1..n |-> selected[CHOOSE i \in 1..n : rank[i] = k]]

\* LIMIT n
Limit(selected, n) == SubSeq(selected, 1, Min(n, Len(selected)))

summary_rows(table, ioc) == Limit(OrderByCreatedDesc(WhereIoc(table, ioc)), 1)

history_rows(table, ioc) ==
    Limit(OrderByCreatedDesc(WhereIoc(table, ioc)), HistoryLimit)

timeline_rows(table, ioc) ==
    Limit(OrderByCreatedDesc(WhereIoc(table, ioc)), TimelineLimit)

\* Optional[dict]: None when the IOC has no row
get_ioc_summary(table, ioc) ==
    LET sel == summary_rows(table, ioc)
    IN  IF sel = <<>> THEN None
        ELSE Some([ioc        |-> sel[1].ioc,
                   ioc_type   |-> sel[1].ioc_type,
                   score      |-> sel[1].score,
                   risk_level |-> sel[1].risk_level,
                   sources    |-> json_loads_list(sel[1].sources),
                   vt         |-> json_loads_dict(sel[1].vt),
                   st         |-> json_loads_dict(sel[1].st),
                   whois      |-> json_loads_dict(sel[1].whois),
                   created_at |-> sel[1].created_at])

get_ioc_history(table, ioc) ==
    LET sel == history_rows(table, ioc)
    IN  [i \in 1..Len(sel) |->
            [ioc        |-> sel[i].ioc,
             ioc_type   |-> sel[i].ioc_type,
             score      |-> sel[i].score,
             risk_level |-> sel[i].risk_level,
             sources    |-> json_loads_list(sel[i].sources),
             created_at |-> sel[i].created_at]]

\* a mutant: phase and burned are derived from the assessments, burned when
\* the assessment found nothing, dormant when it is the oldest one returned
get_ioc_timeline_derived(table, ioc) ==
    LET sel == timeline_rows(table, ioc)
    IN  [i \in 1..Len(sel) |->
            [timestamp  |-> sel[i].created_at,
             score      |-> sel[i].score,
             risk_level |-> sel[i].risk_level,
             phase      |-> IF i = Len(sel) THEN "dormant" ELSE "active",
             burned     |-> sel[i].score = 0]]

get_ioc_timeline(table, ioc) ==
    LET sel == timeline_rows(table, ioc)
    IN  [i \in 1..Len(sel) |->
            [timestamp  |-> sel[i].created_at,
             score      |-> sel[i].score,
             risk_level |-> sel[i].risk_level,
             phase      |-> sel[i].activity_phase,
             burned     |-> sel[i].burned_infra # 0]]

(***************************************************************************)
(* SpecScore: score_ioc over every bounded combination of arguments        *)
(***************************************************************************)
VtInputs ==
    {None, Some(EmptyDict)}
    \cup {Some(VtResult(n)) : n \in (0 - MaxNegDet)..MaxDet}

StInputs ==
    {None, Some(EmptyDict)} \cup {Some(StResult(n)) : n \in 0..MaxRes}

WhoisInputs ==
    {None, Some(EmptyDict), Some(WhoisResult("")), Some(WhoisResult("Acme"))}
    \cup {Some(HunterResult(n)) : n \in 0..MaxEmails}

NoTasks == [p \in Providers |-> [status |-> "none", result |-> None]]

\* the connections served at the same time in SpecConc
Handlers == {"h1", "h2"}

NoHandlers == [h \in Handlers |-> [pc |-> "idle"]]

Args(vt_data, st_data, whois_data) ==
    [vt |-> vt_data, st |-> st_data, hunter |-> whois_data]

\* the IOC the scored results belong to
ScoreIoc == <<"a", "a", "a">>

InitScore ==
    /\ now = 0
    /\ rows = <<>>
    /\ lastSaved = None
    /\ pc = "idle"
    /\ req = None
    /\ tasks = NoTasks
    /\ t0 = 0
    /\ timedOut = FALSE
    /\ \E v \in VtInputs, s \in StInputs, w \in WhoisInputs :
           enriched = Args(v, s, w)
    /\ scored = None
    /\ response = None
    /\ calls = 0
    /\ dbInit = FALSE
    /\ order = <<>>
    /\ conc = NoHandlers
    /\ lookup = None
    /\ raised = None

ScoreCall ==
    /\ UNCHANGED <<order, conc, lookup, raised>>
    /\ scored = None
    /\ scored' = Some(score_ioc(enriched.vt, enriched.st, enriched.hunter))
    /\ UNCHANGED <<now, rows, lastSaved, pc, req, tasks, t0, timedOut,
                   enriched, response, calls, dbInit>>

\* the next call: new arguments, the previous return value is dropped
ScoreArgs ==
    /\ UNCHANGED <<order, conc, lookup, raised>>
    /\ scored # None
    /\ rows = <<>>
    /\ \E v \in VtInputs, s \in StInputs, w \in WhoisInputs :
           enriched' = Args(v, s, w)
    /\ scored' = None
    /\ UNCHANGED <<now, rows, lastSaved, pc, req, tasks, t0, timedOut,
                   response, calls, dbInit>>

\* query_ioc after score_ioc: the returned score, risk level and sources
\* are handed to save_query with the results they were computed from
ScoreSave ==
    /\ UNCHANGED <<order, conc, lookup, raised>>
    /\ scored # None
    /\ rows = <<>>
    /\ LET r == The(scored)
       IN  /\ rows' = save_query(rows, now, ScoreIoc, "domain", r.score,
                                 r.risk_level, r.sources, enriched.vt,
                                 enriched.st, enriched.hunter)
           /\ lastSaved' =
                IF CheckConstraints(r.score, r.risk_level)
                THEN Some([ioc |-> ScoreIoc, score |-> r.score,
                           risk_level |-> r.risk_level,
                           sources |-> r.sources])
                ELSE lastSaved
    /\ UNCHANGED <<now, pc, req, tasks, t0, timedOut, enriched, scored,
                   response, calls, dbInit>>

NextScore == ScoreCall \/ ScoreArgs \/ ScoreSave

SpecScore == InitScore /\ [][NextScore]_vars

(***************************************************************************)
(* POST /api/query (src/app/api/ioc.py)                                    *)
(***************************************************************************)
MinIocLen == 3

MaxIocLen == 255

BatchTimeout == 10

ProviderTimeout == 10

MaxRows == 2

\* an IOC is a sequence of characters
Chars(c, n) == [i \in 1..n |-> c]

RECURSIVE lstrip(_)
lstrip(str) ==
    IF str # <<>> /\ Head(str) = " " THEN lstrip(Tail(str)) ELSE str

RECURSIVE rstrip(_)
rstrip(str) ==
    IF str # <<>> /\ str[Len(str)] = " "
    THEN rstrip(SubSeq(str, 1, Len(str) - 1)) ELSE str

strip(str) == rstrip(lstrip(str))

\* a mutant: both ends of the accepted lengths are excluded
validate_ioc_exclusive(ioc) ==
    ioc # <<>> /\ Len(ioc) > MinIocLen /\ Len(ioc) < MaxIocLen

validate_ioc(ioc) ==
    ~(ioc = <<>> \/ Len(ioc) < MinIocLen \/ Len(ioc) > MaxIocLen)

\* request.ioc (min_length=1) and request.ioc_type (None when omitted)
RawIocs == {Chars("a", 3), <<" ">> \o Chars("a", 3) \o <<" ">>, Chars("a", 2)}

RawTypes == {Some("ip"), Some("domain"), Some("hash"), None}

\* what a lookup returns when it returns: a dict on HTTP 200, None when the
\* key is missing, the status is not 200 or the request raised
AdapterOutcomes(p) ==
    IF p = "vt" THEN {None, Some(VtResult(0)), Some(VtResult(6))}
    ELSE IF p = "st" THEN {None, Some(StResult(0)), Some(StResult(2))}
    ELSE {None, Some(HunterResult(1))}

AllNone == [p \in Providers |-> None]

\* the place of a provider's task in the list handed to gather
Position(p) == IF p = "vt" THEN 1 ELSE IF p = "st" THEN 2 ELSE 3

\* a mutant: the results are taken in the order the lookups returned
GatherResultsByCompletion(ts) ==
    [p \in Providers |->
        IF Len(order) = Cardinality(Providers)
           /\ IsDict(ts[order[Position(p)]].result)
        THEN ts[order[Position(p)]].result ELSE None]

\* results[i] if isinstance(results[i], dict) else None
GatherResults(ts) ==
    [p \in Providers |-> IF IsDict(ts[p].result) THEN ts[p].result ELSE None]

\* a mutant: on timeout the results of the finished tasks are kept
TimeoutResultsPartial(ts) == GatherResults(ts)

\* except asyncio.TimeoutError: return None, None, None
TimeoutResults(ts) == AllNone

\* a mutant: only the first lookup is started, the next ones would be
\* started as the one before returns
CreateTasksFirstOnly ==
    [p \in Providers |->
        IF Position(p) = 1 THEN [status |-> "running", result |-> None]
        ELSE [status |-> "none", result |-> None]]

\* three asyncio.create_task calls in a row, nothing awaited in between
CreateTasks ==
    [p \in Providers |-> [status |-> "running", result |-> None]]

\* wait_for cancels gather, gather cancels every child not yet done
CancelInFlight(ts) ==
    [p \in Providers |->
        IF ts[p].status = "running"
        THEN [status |-> "cancelled", result |-> None]
        ELSE ts[p]]

\* the timers: wait_for arms the batch timer before any task has run; each
\* lookup arms its own httpx timeout once it runs, in the same second
BatchDeadline == t0 + BatchTimeout

HttpxDeadline(p) == t0 + ProviderTimeout

InFlight == {p \in Providers : tasks[p].status = "running"}

\* a mutant: a hash IOC is looked up like a domain
SkipsProvidersNever(ioc_type) == FALSE

\* if ioc_type not in ["domain", "ip"]
SkipsProviders(ioc_type) == ioc_type \notin {"domain", "ip"}

\* query_ioc from score_ioc on: score, save, answer.  An exception of
\* save_query is answered 500.
Finish(clock, ioc, ioc_type, data) ==
    LET r == score_ioc(data.vt, data.st, data.hunter)
    IN  /\ scored' = Some(r)
        /\ rows' = save_query(rows, clock, ioc, ioc_type, r.score,
                              r.risk_level, r.sources, data.vt, data.st,
                              data.hunter)
        /\ IF CheckConstraints(r.score, r.risk_level)
           THEN /\ lastSaved' = Some([ioc |-> ioc, score |-> r.score,
                                      risk_level |-> r.risk_level,
                                      sources |-> r.sources])
                /\ response' = Some([status |-> 200, ioc |-> ioc,
                                     ioc_type |-> ioc_type,
                                     score |-> r.score,
                                     risk_level |-> r.risk_level,
                                     sources |-> r.sources, vt |-> data.vt,
                                     st |-> data.st, whois |-> data.hunter,
                                     created_at |-> clock])
           ELSE /\ lastSaved' = lastSaved
                /\ response' = Some([status |-> 500])
        /\ pc' = "done"

\* query_ioc up to the first suspension: _ensure_db, strip, validation, and
\* for a hash the whole handler (nothing is awaited)
QueryStart ==
    /\ UNCHANGED <<conc, lookup, raised>>
    /\ pc \in {"idle", "done"}
    /\ Len(rows) < MaxRows
    /\ \E raw \in RawIocs, type \in RawTypes :
        LET ioc == strip(raw)
            ioc_type == IF type = None THEN "domain" ELSE The(type)
        IN  /\ dbInit' = TRUE
            /\ req' = Some([ioc |-> ioc, ioc_type |-> ioc_type])
            /\ timedOut' = FALSE
            /\ order' = <<>>
            /\ t0' = now
            /\ now' = now
            /\ IF ~validate_ioc(ioc)
               THEN /\ response' = Some([status |-> 422])
                    /\ pc' = "done"
                    /\ tasks' = NoTasks
                    /\ calls' = 0
                    /\ enriched' = AllNone
                    /\ scored' = None
                    /\ UNCHANGED <<rows, lastSaved>>
               ELSE IF SkipsProviders(ioc_type)
               THEN /\ tasks' = NoTasks
                    /\ calls' = 0
                    /\ enriched' = AllNone
                    /\ Finish(now, ioc, ioc_type, AllNone)
               ELSE /\ tasks' = CreateTasks
                    /\ calls' = Cardinality(Providers)
                    /\ enriched' = AllNone
                    /\ scored' = None
                    /\ response' = None
                    /\ pc' = "waiting"
                    /\ UNCHANGED <<rows, lastSaved>>

\* one lookup runs to its return, before any timer expires
AdapterReturn ==
    /\ UNCHANGED <<conc, lookup, raised>>
    /\ pc = "waiting"
    /\ now < BatchDeadline
    /\ \E p \in InFlight : \E result \in AdapterOutcomes(p) :
        /\ tasks' = [tasks EXCEPT
                        ![p] = [status |-> "done", result |-> result]]
        /\ order' = Append(order, p)
    /\ UNCHANGED <<now, rows, lastSaved, pc, req, t0, timedOut, enriched,
                   scored, response, calls, dbInit>>

\* gather has all three results: wait_for returns them, the handler goes on
GatherReturn ==
    /\ UNCHANGED <<order, conc, lookup, raised>>
    /\ pc = "waiting"
    /\ InFlight = {}
    /\ enriched' = GatherResults(tasks)
    /\ Finish(now, The(req).ioc, The(req).ioc_type, GatherResults(tasks))
    /\ UNCHANGED <<now, req, tasks, t0, timedOut, calls, dbInit>>

\* time passes until the earliest armed timer expires.  The batch timer was
\* armed first and with no longer a delay, so it is never later than an
\* httpx timeout: the batch is cancelled and the handler goes on with
\* nothing.  (An httpx timeout expiring first would end that lookup alone,
\* with None.)
TimerExpires ==
    /\ UNCHANGED <<conc, lookup, raised>>
    /\ pc = "waiting"
    /\ InFlight # {}
    /\ IF \A p \in InFlight : BatchDeadline <= HttpxDeadline(p)
       THEN /\ now' = BatchDeadline
            /\ timedOut' = TRUE
            /\ tasks' = CancelInFlight(tasks)
            /\ enriched' = TimeoutResults(tasks)
            /\ Finish(BatchDeadline, The(req).ioc, The(req).ioc_type,
                      TimeoutResults(tasks))
            /\ UNCHANGED <<req, t0, calls, dbInit, order>>
       ELSE /\ \E p \in InFlight :
                /\ BatchDeadline > HttpxDeadline(p)
                /\ now' = HttpxDeadline(p)
                /\ tasks' = [tasks EXCEPT
                                ![p] = [status |-> "done", result |-> None]]
                /\ order' = Append(order, p)
            /\ UNCHANGED <<rows, lastSaved, pc, req, t0, timedOut, enriched,
                           scored, response, calls, dbInit>>

Init ==
    /\ now = 0
    /\ rows = <<>>
    /\ lastSaved = None
    /\ pc = "idle"
    /\ req = None
    /\ tasks = NoTasks
    /\ t0 = 0
    /\ timedOut = FALSE
    /\ enriched = AllNone
    /\ scored = None
    /\ response = None
    /\ calls = 0
    /\ dbInit = FALSE
    /\ order = <<>>
    /\ conc = NoHandlers
    /\ lookup = None
    /\ raised = None

Next == QueryStart \/ AdapterReturn \/ GatherReturn \/ TimerExpires

Spec == Init /\ [][Next]_vars

(***************************************************************************)
(* SpecStore: the store under sequences of saves, short and long           *)
(***************************************************************************)
MaxSingles == 2

MaxNow == 1

StoreIocs == {Chars("a", 3), Chars("b", 3)}

\* what query_ioc hands to score_ioc and save_query: nothing (a hash, or no
\* provider answered) or a VirusTotal and a SecurityTrails result
StoreEnrichments ==
    {AllNone, Args(Some(VtResult(6)), Some(StResult(2)), None)}

\* the call of save_query made by query_ioc for an enrichment
SaveScored(table, clock, ioc, data) ==
    LET r == score_ioc(data.vt, data.st, data.hunter)
    IN  save_query(table, clock, ioc, "domain", r.score, r.risk_level,
                   r.sources, data.vt, data.st, data.hunter)

\* the table after k such calls in a row, none of them failing
SaveMany(table, clock, ioc, data, k) ==
    LET r == score_ioc(data.vt, data.st, data.hunter)
    IN  table \o [i \in 1..k |->
                     NewRow(Len(table) + i, clock, ioc, "domain", r.score,
                            r.risk_level, r.sources, data.vt, data.st,
                            data.hunter)]

Saved(ioc, data) ==
    LET r == score_ioc(data.vt, data.st, data.hunter)
    IN  Some([ioc |-> ioc, score |-> r.score, risk_level |-> r.risk_level,
              sources |-> r.sources])

\* saves made one at a time so far
Singles ==
    IF Len(rows) >= HistoryLimit THEN Len(rows) - HistoryLimit ELSE Len(rows)

\* init_db: CREATE TABLE IF NOT EXISTS
StoreInit ==
    /\ UNCHANGED <<order, conc, lookup, raised>>
    /\ ~dbInit
    /\ dbInit' = TRUE
    /\ UNCHANGED <<now, rows, lastSaved, pc, req, tasks, t0, timedOut,
                   enriched, scored, response, calls>>

\* one query reaches save_query
StoreSave ==
    /\ UNCHANGED <<order, conc, lookup, raised>>
    /\ dbInit
    /\ Singles < MaxSingles
    /\ \E ioc \in StoreIocs, data \in StoreEnrichments :
        /\ rows' = SaveScored(rows, now, ioc, data)
        /\ lastSaved' = Saved(ioc, data)
    /\ UNCHANGED <<now, pc, req, tasks, t0, timedOut, enriched, scored,
                   response, calls, dbInit>>

\* HistoryLimit queries for one IOC, all answered within the same second
StoreBurst ==
    /\ UNCHANGED <<order, conc, lookup, raised>>
    /\ dbInit
    /\ Len(rows) < HistoryLimit
    /\ \E ioc \in StoreIocs, data \in StoreEnrichments :
        /\ rows' = SaveMany(rows, now, ioc, data, HistoryLimit)
        /\ lastSaved' = Saved(ioc, data)
    /\ UNCHANGED <<now, pc, req, tasks, t0, timedOut, enriched, scored,
                   response, calls, dbInit>>

StoreTick ==
    /\ UNCHANGED <<order, conc, lookup, raised>>
    /\ now < MaxNow
    /\ now' = now + 1
    /\ UNCHANGED <<rows, lastSaved, pc, req, tasks, t0, timedOut, enriched,
                   scored, response, calls, dbInit>>

NextStore == StoreInit \/ StoreSave \/ StoreBurst \/ StoreTick

SpecStore == Init /\ [][NextStore]_vars

(***************************************************************************)
(* GET /api/summary, /api/history, /api/timeline (src/app/api/ioc.py)      *)
(***************************************************************************)
\* _ensure_db: init_db on the first request of the process
ensure_db(table) == IF dbInit THEN table ELSE init_db(table)

\* IOCSummary(**data): the fields of the response model, the others dropped
IOCSummary(data) ==
    [ioc        |-> data.ioc,
     ioc_type   |-> data.ioc_type,
     score      |-> data.score,
     risk_level |-> data.risk_level,
     sources    |-> data.sources,
     created_at |-> data.created_at]

\* raise HTTPException(status_code=404, ...); except Exception: raise
NotFound(endpoint, ioc) ==
    [endpoint |-> endpoint, ioc |-> ioc, status |-> 404,
     detail |-> "IOC not found"]

Found(endpoint, ioc, body) ==
    [endpoint |-> endpoint, ioc |-> ioc, status |-> 200, body |-> body]

get_summary(table, ioc) ==
    LET data == get_ioc_summary(table, ioc)
    IN  IF data = None THEN NotFound("summary", ioc)
        ELSE Found("summary", ioc, IOCSummary(The(data)))

\* a mutant: the empty history is answered 200
get_history_unchecked(table, ioc) ==
    Found("history", ioc, get_ioc_history(table, ioc))

get_history(table, ioc) ==
    LET history == get_ioc_history(table, ioc)
    IN  IF history = <<>> THEN NotFound("history", ioc)
        ELSE Found("history", ioc, history)

get_timeline(table, ioc) ==
    LET timeline == get_ioc_timeline(table, ioc)
    IN  IF timeline = <<>> THEN NotFound("timeline", ioc)
        ELSE Found("timeline", ioc, timeline)

\* the path parameter {ioc}, stripped by the handler
PathIocs ==
    {Chars("a", 3), <<" ">> \o Chars("a", 3), Chars("a", MaxIocLen)}

GetSummary ==
    /\ lookup = None
    /\ \E raw \in PathIocs :
        lookup' = Some(get_summary(ensure_db(rows), strip(raw)))
    /\ rows' = ensure_db(rows)
    /\ dbInit' = TRUE
    /\ UNCHANGED <<now, lastSaved, pc, req, tasks, t0, timedOut, enriched,
                   scored, response, calls, order, conc, raised>>

GetHistory ==
    /\ lookup = None
    /\ \E raw \in PathIocs :
        lookup' = Some(get_history(ensure_db(rows), strip(raw)))
    /\ rows' = ensure_db(rows)
    /\ dbInit' = TRUE
    /\ UNCHANGED <<now, lastSaved, pc, req, tasks, t0, timedOut, enriched,
                   scored, response, calls, order, conc, raised>>

GetTimeline ==
    /\ lookup = None
    /\ \E raw \in PathIocs :
        lookup' = Some(get_timeline(ensure_db(rows), strip(raw)))
    /\ rows' = ensure_db(rows)
    /\ dbInit' = TRUE
    /\ UNCHANGED <<now, lastSaved, pc, req, tasks, t0, timedOut, enriched,
                   scored, response, calls, order, conc, raised>>

\* the answer has been sent, the GET handler is gone
GetAnswered ==
    /\ lookup # None
    /\ lookup' = None
    /\ UNCHANGED <<now, rows, lastSaved, pc, req, tasks, t0, timedOut,
                   enriched, scored, response, calls, dbInit, order, conc,
                   raised>>

(***************************************************************************)
(* SpecConc: two connections served at the same time.  A query_ioc handler *)
(* is suspended only at await _enrich_ioc_parallel; what the await returns *)
(* is what Spec shows it can return: the gathered results, or nothing      *)
(* after the batch timeout.  The GET handlers never suspend.               *)
(***************************************************************************)
\* request.ioc at and around both ends of the accepted lengths
ConcRawIocs ==
    {Chars("a", MinIocLen - 1),
     Chars("a", MinIocLen),
     <<" ">> \o Chars("a", MinIocLen - 1) \o <<" ">>,
     Chars(" ", MinIocLen),
     <<" ">> \o Chars("a", MaxIocLen) \o <<" ">>,
     Chars("a", MaxIocLen + 1)}

\* the database file left by an earlier run of the service: empty, or one
\* assessment
OldRows ==
    {<<>>, SaveScored(<<>>, 0, Chars("a", MinIocLen), AllNone)}

\* a handler before its first suspension
Arrived(raw, ioc, ioc_type, clock) ==
    [pc |-> "start", raw |-> raw, ioc |-> ioc, ioc_type |-> ioc_type,
     calls |-> 0, t0 |-> clock]

\* raise HTTPException(status_code=422, ...)
Rejected(c) ==
    [pc |-> "done", raw |-> c.raw, ioc |-> c.ioc, ioc_type |-> c.ioc_type,
     calls |-> c.calls, t0 |-> c.t0, status |-> 422]

\* the three tasks are created, the handler awaits them
Suspended(c) ==
    [pc |-> "waiting", raw |-> c.raw, ioc |-> c.ioc,
     ioc_type |-> c.ioc_type, calls |-> Cardinality(Providers),
     t0 |-> c.t0]

\* the INSERT made by handler c for the results data
ConcSave(table, c, clock, data) ==
    LET r == score_ioc(data.vt, data.st, data.hunter)
    IN  save_query(table, clock, c.ioc, c.ioc_type, r.score, r.risk_level,
                   r.sources, data.vt, data.st, data.hunter)

\* the handler after score_ioc, save_query and the answer
Completed(c, clock, data) ==
    LET r == score_ioc(data.vt, data.st, data.hunter)
    IN  [pc |-> "done", raw |-> c.raw, ioc |-> c.ioc,
         ioc_type |-> c.ioc_type, calls |-> c.calls, t0 |-> c.t0,
         status |-> IF CheckConstraints(r.score, r.risk_level)
                    THEN 200 ELSE 500,
         score |-> r.score, risk_level |-> r.risk_level,
         sources |-> r.sources, created_at |-> clock]

\* lastSaved after the INSERT made by handler c
ConcSaved(c, data) ==
    LET r == score_ioc(data.vt, data.st, data.hunter)
    IN  IF CheckConstraints(r.score, r.risk_level)
        THEN Saved(c.ioc, data) ELSE lastSaved

InitConc ==
    /\ now = 0
    /\ \E old \in OldRows : rows = old
    /\ lastSaved = None
    /\ pc = "idle"
    /\ req = None
    /\ tasks = NoTasks
    /\ t0 = 0
    /\ timedOut = FALSE
    /\ enriched = AllNone
    /\ scored = None
    /\ response = None
    /\ calls = 0
    /\ dbInit = FALSE
    /\ order = <<>>
    /\ conc = NoHandlers
    /\ lookup = None
    /\ raised = None

\* a request arrives: _ensure_db, strip, validation, then 422, or the whole
\* handler for a hash, or the suspension
ConcStart ==
    /\ \E h \in Handlers :
        /\ conc[h].pc = "idle"
        /\ \E raw \in ConcRawIocs, type \in RawTypes :
            LET ioc == strip(raw)
                ioc_type == IF type = None THEN "domain" ELSE The(type)
                c == Arrived(raw, ioc, ioc_type, now)
                table == ensure_db(rows)
            IN  IF ~validate_ioc(ioc)
                THEN /\ conc' = [conc EXCEPT ![h] = Rejected(c)]
                     /\ rows' = table
                ELSE IF SkipsProviders(ioc_type)
                THEN /\ conc' = [conc EXCEPT
                                    ![h] = Completed(c, now, AllNone)]
                     /\ rows' = ConcSave(table, c, now, AllNone)
                ELSE /\ conc' = [conc EXCEPT ![h] = Suspended(c)]
                     /\ rows' = table
    /\ dbInit' = TRUE
    /\ UNCHANGED <<now, lastSaved, pc, req, tasks, t0, timedOut, enriched,
                   scored, response, calls, order, lookup, raised>>

\* the await returns the gathered results before the batch deadline
ConcResume ==
    /\ \E h \in Handlers :
        /\ conc[h].pc = "waiting"
        /\ now < conc[h].t0 + BatchTimeout
        /\ \E data \in StoreEnrichments :
            /\ conc' = [conc EXCEPT ![h] = Completed(conc[h], now, data)]
            /\ rows' = ConcSave(rows, conc[h], now, data)
            /\ lastSaved' = ConcSaved(conc[h], data)
    /\ UNCHANGED <<now, pc, req, tasks, t0, timedOut, enriched,
                   scored, response, calls, dbInit, order, lookup, raised>>

\* the batch deadline of a suspended handler passes: it goes on with nothing
ConcTimeout ==
    /\ \E h \in Handlers :
        /\ conc[h].pc = "waiting"
        /\ LET clock == Max(now, conc[h].t0 + BatchTimeout)
           IN  /\ now' = clock
               /\ conc' = [conc EXCEPT
                              ![h] = Completed(conc[h], clock, AllNone)]
               /\ rows' = ConcSave(rows, conc[h], clock, AllNone)
               /\ lastSaved' = ConcSaved(conc[h], AllNone)
    /\ UNCHANGED <<pc, req, tasks, t0, timedOut, enriched,
                   scored, response, calls, dbInit, order, lookup, raised>>

NextConc ==
    \/ ConcStart
    \/ ConcResume
    \/ ConcTimeout
    \/ GetSummary
    \/ GetHistory
    \/ GetTimeline
    \/ GetAnswered

SpecConc == InitConc /\ [][NextConc]_vars

(***************************************************************************)
(* SpecDb: save_query called with any arguments, as db.py allows           *)
(***************************************************************************)
\* scores at and around both ends of the CHECK range
DbScores == {0 - 1, 0, 50, 100, 101}

DbRisks == {"low", "critical", "severe", ""}

\* sqlite3.IntegrityError: CHECK constraint failed
IntegrityError(score, risk_level) ==
    [error |-> "IntegrityError", score |-> score, risk_level |-> risk_level]

\* init_db on a database file that may already hold rows
DbInit ==
    /\ ~dbInit
    /\ dbInit' = TRUE
    /\ rows' = init_db(rows)
    /\ UNCHANGED <<now, lastSaved, pc, req, tasks, t0, timedOut, enriched,
                   scored, response, calls, order, conc, lookup, raised>>

\* one call of save_query: it returns, or the INSERT raises
DbSave ==
    /\ dbInit
    /\ Len(rows) < MaxSingles
    /\ \E ioc \in StoreIocs, score \in DbScores, risk_level \in DbRisks :
        /\ rows' = save_query(rows, now, ioc, "domain", score, risk_level,
                              <<>>, None, None, None)
        /\ IF CheckConstraints(score, risk_level)
           THEN /\ raised' = None
                /\ lastSaved' = Some([ioc |-> ioc, score |-> score,
                                      risk_level |-> risk_level,
                                      sources |-> <<>>])
           ELSE /\ raised' = Some(IntegrityError(score, risk_level))
                /\ lastSaved' = lastSaved
    /\ UNCHANGED <<now, pc, req, tasks, t0, timedOut, enriched, scored,
                   response, calls, dbInit, order, conc, lookup>>

NextDb == DbInit \/ DbSave

SpecDb == InitConc /\ [][NextDb]_vars

(***************************************************************************)
(* Claims about score_ioc, checked under SpecScore                         *)
(***************************************************************************)
RiskLevels == {"low", "medium", "high", "critical"}

InSeq(x, seq) == \E i \in 1..Len(seq) : seq[i] = x

\* C1: whatever results are passed, the returned score is an integer in
\* 0..100 and the risk level is one of the four tiers, critical iff
\* score >= 70, high iff 50 <= score < 70, medium iff 25 <= score < 50,
\* low iff score < 25.
C1_ScoreAndTier ==
    \A r \in scored :
        /\ r.score \in 0..100
        /\ r.risk_level \in RiskLevels
        /\ (r.risk_level = "critical") <=> (r.score >= 70)
        /\ (r.risk_level = "high") <=> (50 <= r.score /\ r.score < 70)
        /\ (r.risk_level = "medium") <=> (25 <= r.score /\ r.score < 50)
        /\ (r.risk_level = "low") <=> (r.score < 25)

\* C1 witness: a call returned exactly the boundary score 50, tier high.
C1_Witness ==
    \E r \in scored : r.score = 50 /\ r.risk_level = "high"

\* The terms of C2, read off the results themselves.
C2_R(vt_data) ==
    IF vt_data # None /\ "detections" \in DOMAIN The(vt_data)
    THEN Min(The(vt_data).detections * 5, 50)
    ELSE 0

C2_D(st_data) ==
    IF st_data # None /\ "resolutions" \in DOMAIN The(st_data)
       /\ Len(The(st_data).resolutions) >= 1
    THEN 10 ELSE 0

\* a blank registrar string reports no registrar
C2_W(whois_data) ==
    IF whois_data # None /\ "registrar" \in DOMAIN The(whois_data)
       /\ The(whois_data).registrar # ""
    THEN 5 ELSE 0

C2_Clamp(n) == IF n < 0 THEN 0 ELSE IF n > 100 THEN 100 ELSE n

C2_Score(r) ==
    r.score = C2_Clamp(C2_R(enriched.vt) + C2_D(enriched.st)
                       + C2_W(enriched.hunter))

NonEmptyResult(x) == x # None /\ The(x) # EmptyDict

C14_Case ==
    /\ scored # None
    /\ enriched.vt = Some(VtResult(6))
    /\ enriched.st = Some(StResult(2))
    /\ enriched.hunter # None
    /\ "registrar" \notin DOMAIN The(enriched.hunter)

\* C14 as stated: the call of the example returns score 40, risk level
\* medium and the sources list of exactly the reputation provider followed
\* by the DNS-history provider.
C14_Original ==
    C14_Case =>
        \A r \in scored :
            /\ r.score = 40
            /\ r.risk_level = "medium"
            /\ r.sources = <<"virustotal", "securitytrails">>

\* C14 amended: the call of the example returns score 40 and risk level
\* medium; sources is the reputation provider followed by the DNS-history
\* provider, followed by the WHOIS-style provider unless its result is the
\* empty dict.
C14_Example ==
    C14_Case =>
        \A r \in scored :
            /\ r.score = 40
            /\ r.risk_level = "medium"
            /\ r.sources =
                 IF The(enriched.hunter) = EmptyDict
                 THEN <<"virustotal", "securitytrails">>
                 ELSE <<"virustotal", "securitytrails", "whois">>

\* C14 witness: the example was scored with the result of the Hunter
\* lookup, which has an emails field and no registrar field.
C14_Witness ==
    /\ C14_Case
    /\ enriched.hunter = Some(HunterResult(1))
    /\ \A r \in scored : r.score = 40 /\ Len(r.sources) = 3


\* C20: score_ioc returns at most 65 and never the risk level critical,
\* whatever results it is given; so no row written from its return value has
\* a score above 65 or the risk level critical.
C20_NeverCritical ==
    /\ \A r \in scored : r.score <= 65 /\ r.risk_level # "critical"
    /\ \A i \in 1..Len(rows) :
          rows[i].score <= 65 /\ rows[i].risk_level # "critical"

\* C20 witness: the largest score, 65 (more than 10 detections, a
\* resolution, a registrar), was returned with risk level high and stored.
C20_Witness ==
    /\ \E r \in scored : r.score = 65 /\ r.risk_level = "high"
    /\ Len(rows) = 1
    /\ rows[1].score = 65
    /\ rows[1].risk_level = "high"
    /\ enriched.vt = Some(VtResult(MaxDet))

(***************************************************************************)
(* Claims about the query pipeline, checked under Spec                     *)
(***************************************************************************)
SourceName(p) ==
    IF p = "vt" THEN "virustotal"
    ELSE IF p = "st" THEN "securitytrails" ELSE "whois"

\* lookups that returned a result
Succeeded == {p \in Providers : tasks[p].status = "done" /\ tasks[p].result # None}

\* lookups that returned nothing, or had not returned when the deadline came
FailedOrTimedOut ==
    {p \in Providers :
        \/ tasks[p].status = "cancelled"
        \/ tasks[p].status = "done" /\ tasks[p].result = None}

LastRow == rows[Len(rows)]

\* C3: when exactly one of the three providers fails or times out and the
\* other two return a result, the query succeeds, both results count in
\* the score and both providers are in sources, the failed one is not.
C3_PartialFailure ==
    (/\ pc = "done"
     /\ Cardinality(Succeeded) = 2
     /\ Cardinality(FailedOrTimedOut) = 1)
    => \E a \in response :
        /\ a.status = 200
        /\ \A p \in Succeeded : InSeq(SourceName(p), a.sources)
        /\ \A p \in FailedOrTimedOut : ~InSeq(SourceName(p), a.sources)
        /\ a.score = C2_Clamp(C2_R(tasks.vt.result) + C2_D(tasks.st.result)
                              + C2_W(tasks.hunter.result))

C6_HashNoLookups ==
    \A q \in req :
        q.ioc_type = "hash"
        => /\ calls = 0
           /\ \A p \in Providers : tasks[p].status = "none"
           /\ \A p \in Providers : enriched[p] = None
           /\ pc = "done"
           /\ validate_ioc(q.ioc)
              => /\ \E a \in response : a.status = 200 /\ a.sources = <<>>
                 /\ Len(rows) >= 1
                 /\ LastRow.ioc = q.ioc
                 /\ LastRow.ioc_type = "hash"
                 /\ LastRow.score = 0

\* C6 witness: a hash query was answered and its row saved.
C6_Witness ==
    \E q \in req :
        /\ q.ioc_type = "hash"
        /\ \E a \in response : a.status = 200
        /\ Len(rows) >= 1
        /\ LastRow.ioc_type = "hash"

\* C15: a POST /api/query whose provider batch timed out is answered with
\* status 504.
C15_TimeoutAnswered504 ==
    (pc = "done" /\ timedOut) => \A a \in response : a.status = 504

\* C17: when the three lookups have all returned before the deadline, what
\* the orchestrator returns is each provider's own outcome in that
\* provider's place, whatever the order in which they returned; so the
\* score, the risk level and the sources (in the order virustotal,
\* securitytrails, whois) are those of the three outcomes alone.
C17_ByPosition ==
    (pc = "done" /\ ~timedOut /\ Len(order) = Cardinality(Providers)) =>
        /\ \A p \in Providers : enriched[p] = tasks[p].result
        /\ scored = Some(score_ioc(tasks["vt"].result, tasks["st"].result,
                                   tasks["hunter"].result))
        /\ \A a \in response :
             /\ a.status = 200
             /\ a.score = The(scored).score
             /\ a.risk_level = The(scored).risk_level
             /\ a.sources = The(scored).sources
             /\ a.sources =
                  (IF tasks["vt"].result # None
                   THEN <<"virustotal">> ELSE <<>>)
                  \o (IF tasks["st"].result # None
                      THEN <<"securitytrails">> ELSE <<>>)
                  \o (IF tasks["hunter"].result # None
                      THEN <<"whois">> ELSE <<>>)

\* C17 witness: the lookups returned in the order hunter, securitytrails,
\* virustotal, the first with a dict, the last with nothing, and the query
\* was answered with the sources securitytrails, whois.
C17_Witness ==
    /\ pc = "done" /\ ~timedOut
    /\ order = <<"hunter", "st", "vt">>
    /\ tasks["vt"].result = None
    /\ tasks["st"].result = Some(StResult(2))
    /\ tasks["hunter"].result = Some(HunterResult(1))
    /\ \A a \in response : a.sources = <<"securitytrails", "whois">>
    /\ response # None

\* C18: for an ip or domain IOC the three lookups are all started before the
\* orchestrator waits (while none has returned, all three are running, and
\* at no time is one started and another not); the orchestrator returns
\* only from the one join, when all three have returned or when the shared
\* deadline has passed.
C18_FanOutJoin ==
    /\ [](/\ (pc = "waiting" /\ order = <<>>) => (InFlight = Providers)
          /\ (pc = "waiting") => (calls = Cardinality(Providers))
          /\ \A p, q \in Providers :
                (tasks[p].status = "none") <=> (tasks[q].status = "none"))
    /\ [][(pc = "waiting" /\ pc' = "done") =>
            \/ /\ \A p \in Providers : tasks[p].status = "done"
               /\ ~timedOut'
            \/ /\ timedOut'
               /\ now' >= t0 + BatchTimeout
               /\ InFlight # {}]_vars

\* C18 witness: the join ended at the deadline, with one lookup returned
\* and the two others, started with it, cancelled.
C18_Witness ==
    /\ pc = "done" /\ timedOut
    /\ now = t0 + BatchTimeout
    /\ Len(order) = 1
    /\ Cardinality({p \in Providers : tasks[p].status = "cancelled"}) = 2

(***************************************************************************)
(* Claims about the store, checked under SpecStore                         *)
(***************************************************************************)
Ids(selected) == {selected[i].id : i \in 1..Len(selected)}

\* C7: timeline(ioc) lists the points of the IOC oldest first.
C7_TimelineOldestFirst ==
    \A ioc \in StoreIocs :
        LET tl == get_ioc_timeline(rows, ioc)
        IN  \A i \in 1..Len(tl) : \A j \in 1..Len(tl) :
                i < j => tl[i].timestamp <= tl[j].timestamp

\* C8: history(ioc) and timeline(ioc) are built from the same stored rows.
C8_SameAssessments ==
    \A ioc \in StoreIocs :
        Ids(history_rows(rows, ioc)) = Ids(timeline_rows(rows, ioc))

\* the ids of the n rows of the IOC appended last
NewestIds(ioc, n) ==
    LET all == Ids(WhereIoc(rows, ioc))
    IN  {x \in all : Cardinality({y \in all : y > x}) < n}

\* C9: history(ioc) holds only rows of the IOC, most recently appended
\* first, at most 50 of them, and they are the 50 appended last.
C9_HistoryNewestFirst ==
    \A ioc \in StoreIocs :
        LET h == history_rows(rows, ioc)
        IN  /\ \A i \in 1..Len(h) : h[i].ioc = ioc
            /\ \A i \in 1..Len(h) : \A j \in 1..Len(h) :
                    i < j => h[i].id > h[j].id
            /\ Len(h) <= 50
            /\ Ids(h) = NewestIds(ioc, 50)

\* C10: right after save_query wrote an assessment, get_ioc_summary of its
\* IOC returns that assessment: the same score, risk level and sources.
C10_LatestRoundTrip ==
    \A w \in lastSaved :
        \E got \in get_ioc_summary(rows, w.ioc) :
            /\ got.score = w.score
            /\ got.risk_level = w.risk_level
            /\ got.sources = w.sources

(***************************************************************************)
(* Claims about concurrent requests, checked under SpecConc                *)
(***************************************************************************)
\* the handlers that answer 200 in this step
Answering ==
    {h \in Handlers :
        conc[h].pc # "done" /\ conc'[h].pc = "done" /\ conc'[h].status = 200}

\* C11: the store is append-only.  In every step (a query arriving,
\* resuming or timing out, a summary, history or timeline lookup, each with
\* the database initialisation of the first request) the rows stored before
\* the step are still there, unchanged and in place; the step appends
\* exactly one row for each query answered 200 in it, that row carrying the
\* answered IOC, score and risk level, and no row otherwise.  So with two
\* queries in flight at once, for the same or for different IOCs, no
\* appended row is lost.
C11_AppendOnly ==
    [][/\ Len(rows') >= Len(rows)
       /\ SubSeq(rows', 1, Len(rows)) = rows
       /\ Len(rows') - Len(rows) = Cardinality(Answering)
       /\ \A h \in Answering :
            LET new == rows'[Len(rows')]
            IN  /\ new.ioc = conc'[h].ioc
                /\ new.score = conc'[h].score
                /\ new.risk_level = conc'[h].risk_level
                /\ new.created_at = conc'[h].created_at]_vars

\* C11 witness: the store held a row from an earlier run; two queries for
\* the same IOC arrived in the same second, the second was answered at once
\* while the first was suspended until its batch deadline, both answered
\* 200, and the store holds the old row and both new ones.
C11_Witness ==
    /\ conc["h1"].pc = "done" /\ conc["h2"].pc = "done"
    /\ conc["h1"].status = 200 /\ conc["h2"].status = 200
    /\ conc["h1"].ioc = conc["h2"].ioc
    /\ conc["h1"].t0 = conc["h2"].t0
    /\ conc["h2"].created_at = conc["h2"].t0
    /\ conc["h1"].created_at = conc["h1"].t0 + BatchTimeout
    /\ Len(rows) = 3
    /\ rows[1].ioc = conc["h1"].ioc
    /\ rows[2].created_at = conc["h2"].created_at
    /\ rows[3].created_at = conc["h1"].created_at
    /\ lookup # None

\* C12: a summary, history or timeline lookup of an IOC with no stored
\* assessment is answered 404 and nothing else; a lookup of an IOC with at
\* least one stored assessment is answered 200 with a non-empty result (one
\* summary of that IOC, or a non-empty list).
C12_Lookups ==
    [][(lookup = None /\ lookup' # None) =>
        \A a \in lookup' :
            LET stored == {i \in 1..Len(rows) : rows[i].ioc = a.ioc}
            IN  /\ (stored = {}) => (a.status = 404)
                /\ (stored # {}) =>
                      /\ a.status = 200
                      /\ IF a.endpoint = "summary"
                         THEN a.body.ioc = a.ioc
                         ELSE /\ Len(a.body) >= 1
                              /\ Len(a.body) <= Cardinality(stored)]_vars

\* C12 witness: the timeline of an IOC is asked for while the first query
\* for that IOC is still suspended and the store holds rows of another IOC
\* only: the answer is 404.
C12_Witness ==
    \E a \in lookup, h \in Handlers :
        /\ a.endpoint = "timeline"
        /\ a.status = 404
        /\ conc[h].pc = "waiting"
        /\ conc[h].ioc = a.ioc
        /\ rows # <<>>

(***************************************************************************)
(* Claims about the store's constraints, checked under SpecDb              *)
(***************************************************************************)
\* C13: every stored row has a score in 0..100 and one of the four risk
\* levels; a call of save_query with a score outside 0..100 or an unknown
\* risk level raises, and the step in which it raises leaves the store as
\* it was; only such calls raise.
C13_StoreConstraints ==
    /\ [](/\ \A i \in 1..Len(rows) :
                /\ rows[i].score \in 0..100
                /\ rows[i].risk_level \in RiskLevels
          /\ \A e \in raised :
                e.score \notin 0..100 \/ e.risk_level \notin RiskLevels)
    /\ [][/\ (raised' # None) => (rows' = rows)
          /\ (rows' # rows /\ dbInit) => (raised' = None)]_vars

\* C13 witness: with a row stored, a write of score 101 was rejected.
C13_Witness ==
    /\ Len(rows) = 1
    /\ rows[1].score = 100
    /\ \E e \in raised : e.score = 101 /\ e.risk_level = "low"

(***************************************************************************)
(* Claims about validation, checked under SpecConc                         *)
(***************************************************************************)
\* the length of raw without the blanks before its first and after its last
\* other character
C19_StrippedLen(raw) ==
    LET n == Len(raw)
        lead == Cardinality({i \in 1..n : \A j \in 1..i : raw[j] = " "})
        trail == Cardinality({i \in 1..n : \A j \in i..n : raw[j] = " "})
    IN  IF lead = n THEN 0 ELSE n - lead - trail

\* C19: a query whose IOC, stripped, has fewer than 3 or more than 255
\* characters is answered 422 with no provider lookup started, and the step
\* that rejects it appends no row (no stored row ever has such an IOC); a
\* query whose stripped IOC has 3..255 characters is never answered 422.
C19_Validation ==
    /\ [](/\ \A h \in Handlers :
                (conc[h].pc # "idle") =>
                    LET n == C19_StrippedLen(conc[h].raw)
                    IN  IF n < 3 \/ n > 255
                        THEN /\ conc[h].pc = "done"
                             /\ conc[h].status = 422
                             /\ conc[h].calls = 0
                        ELSE \/ conc[h].pc = "waiting"
                             \/ conc[h].status # 422
          /\ \A i \in 1..Len(rows) : Len(rows[i].ioc) \in 3..255)
    /\ [][\A h \in Handlers :
            (conc[h].pc = "idle" /\ conc'[h].pc = "done"
             /\ conc'[h].status = 422) => (rows' = rows)]_vars

\* C19 witness: one request with 2 characters between two blanks was
\* answered 422; another with 255 characters between two blanks was
\* looked up and answered 200, with its row stored.
C19_Witness ==
    /\ conc["h1"].pc = "done" /\ conc["h2"].pc = "done"
    /\ Len(conc["h1"].raw) = 4
    /\ conc["h1"].status = 422
    /\ Len(conc["h2"].raw) = 257
    /\ conc["h2"].status = 200
    /\ conc["h2"].calls = Cardinality(Providers)
    /\ \E i \in 1..Len(rows) : Len(rows[i].ioc) = 255

(***************************************************************************)
(* Claims about the timeline, checked under SpecConc                       *)
(***************************************************************************)
\* every point of a timeline carries the column defaults
C21_Defaults(timeline) ==
    \A k \in 1..Len(timeline) :
        timeline[k].phase = "unknown" /\ timeline[k].burned = FALSE

====
